---- MODULE Spec2Model ----
(***************************************************************************)
(* Vmize metered API gateway: API-key admission, quota gating, upstream    *)
(* proxying and usage accounting, in the three gateway variants of the     *)
(* repository:                                                             *)
(*   "analytics"  vmize/backend/vmize-proxy-server-with-analytics.js       *)
(*   "memory"     vmize/backend/vmize-proxy-server.js                      *)
(*   "mongo"      the Customer-model backed proxy (unnamed/part_004)       *)
(* A request handler is split into one action per stretch of code between  *)
(* two suspension points (await), so that concurrent requests interleave   *)
(* exactly where the event loop lets them.                                 *)
(***************************************************************************)
EXTENDS Integers, Sequences, FiniteSets, TLC

VARIABLES
    variant,      \* which gateway is running
    directory,    \* API key -> customer record
    req,          \* the requests: position of each handler, its request data, its
                  \* response, and (history) the status of each call record it appended
    analytics,    \* counters of the analytics tracker
    reset,        \* POST /api/analytics/reset: position of the handler
    arrived,      \* number of requests received so far
    maxInflight,  \* history: per key, the largest number of submit calls in flight at once
    successes,    \* history: per key, submit calls answered 200 since usage was last reset
    admin,        \* the admin routes: keys issued so far, the status of the last
                  \* response, and (history) the keys revoked with success
    customers,    \* the Customer collection as the monthly billing job sees it
    run,          \* the monthly billing job: position, queue, and what it has done
    charges,      \* history: the calls of stripeService.createOverageCharge
    data,         \* AnalyticsTracker.data
    file,         \* content of analytics-data.json
    tracker,      \* the tracker process: clock, load in progress, operations so far,
                  \* whether the last call threw, the data last given to saveData,
                  \* the last answer to a query, the writeFile calls in flight, and
                  \* what readFile has read
    history       \* history: names passed to trackEvent, in order

cronVars == <<customers, run, charges>>

trackerVars == <<data, file, tracker, history>>

vars == <<variant, directory, req, analytics, reset, arrived, maxInflight, successes,
          admin, cronVars, trackerVars>>

(***************************************************************************)
(* Bounds of the model.                                                    *)
(***************************************************************************)
\* number of requests the clients send in one behaviour
MaxReq == 2
\* number of requests the gateway handles at the same time
MaxConcurrent == 2
\* monthly quota of every plan, scaled down from the plan table
PlanLimit == 1
\* number of API keys the admin routes issue in one behaviour
MaxIssued == 2

Slots == 1..MaxConcurrent

Variants == {"analytics", "memory", "mongo"}

(***************************************************************************)
(* API keys.  A key is the sequence of its "_"-separated segments, so that *)
(* the prefix tests of the code are computed, not assumed.                 *)
(***************************************************************************)
Absent == <<>>
BadFormatKey == <<"bad", "format", "key">>
DemoKey == <<"vmize", "pk", "demo", "test", "1234567890">>

\* Date.now() at the n-th issuance of a key, as the text that ends the key
Stamp(n) == <<"t1", "t2", "t3", "t4", "t5", "t6", "t7", "t8", "t9">>[n]

\* a key built from the customer id alone
GeneratedKeyNoStamp(customerId, n) == <<"vmize", "pk", "live", customerId, Stamp(1)>>

\* the key POST /admin/generate-key builds: vmize_pk_live_<customerId>_<Date.now()>
GeneratedKey(customerId, n) == <<"vmize", "pk", "live", customerId, Stamp(n)>>

\* the first key issued to customer c1
LiveKey == GeneratedKey("c1", 1)

KeyValues == {BadFormatKey, DemoKey} \cup {GeneratedKey("c1", n) : n \in 1..MaxIssued}
Headers == KeyValues \cup {Absent}

\* String.prototype.startsWith(pre + "_") on the segment representation
StartsWith(key, pre) ==
    /\ Len(key) > Len(pre)
    /\ SubSeq(key, 1, Len(pre)) = pre

NoCustomer == [id |-> "none"]

Customer(id, status, lapsed, used) ==
    [id |-> id, status |-> status, trialLapsed |-> lapsed,
     limit |-> PlanLimit, used |-> used]

\* the record kept in demoKeys (no subscription status, no trial window)
DemoCustomer == [id |-> "demo_customer", status |-> "none", trialLapsed |-> FALSE,
                 limit |-> PlanLimit, used |-> 0]

Statuses == {"active", "trialing", "inactive", "cancelled"}

(***************************************************************************)
(* Admission: the three key-verification middlewares.  Each returns the    *)
(* HTTP status it answers with (0: next() was called) and the message.     *)
(***************************************************************************)
Verdict(status, reason) == [status |-> status, reason |-> reason]

Admitted == Verdict(0, "next")

\* verifyVmizeKey without its usage check
verifyVmizeKeyNoQuota(apiKey, dir) ==
    IF apiKey = Absent THEN Verdict(401, "API key required")
    ELSE IF ~StartsWith(apiKey, <<"vmize", "pk">>)
        THEN Verdict(401, "Invalid API key format")
    ELSE IF dir[apiKey] = NoCustomer THEN Verdict(401, "Invalid API key")
    ELSE Admitted

\* verifyVmizeKey rejecting only a customer beyond the limit, not one at it
verifyVmizeKeyBeyondLimit(apiKey, dir) ==
    IF apiKey = Absent THEN Verdict(401, "API key required")
    ELSE IF ~StartsWith(apiKey, <<"vmize", "pk">>)
        THEN Verdict(401, "Invalid API key format")
    ELSE IF dir[apiKey] = NoCustomer THEN Verdict(401, "Invalid API key")
    ELSE IF dir[apiKey].used > dir[apiKey].limit
        THEN Verdict(429, "Usage limit exceeded")
    ELSE Admitted

verifyVmizeKey(apiKey, dir) ==
    IF apiKey = Absent THEN Verdict(401, "API key required")
    ELSE IF ~StartsWith(apiKey, <<"vmize", "pk">>)
        THEN Verdict(401, "Invalid API key format")
    ELSE IF dir[apiKey] = NoCustomer THEN Verdict(401, "Invalid API key")
    ELSE IF dir[apiKey].used >= dir[apiKey].limit
        THEN Verdict(429, "Usage limit exceeded")
    ELSE Admitted

\* verifyCustomerApiKey without its lookup of the key
verifyCustomerApiKeyNoLookup(apiKey, dir) ==
    IF apiKey = Absent THEN Verdict(401, "Missing X-Vmize-API-Key header")
    ELSE IF /\ ~StartsWith(apiKey, <<"vmize", "pk", "live">>)
            /\ ~StartsWith(apiKey, <<"vmize", "pk", "test">>)
        THEN Verdict(401, "Invalid API key format")
    ELSE IF dir[apiKey] = NoCustomer THEN Admitted
    ELSE IF dir[apiKey].status # "active" THEN Verdict(403, "Subscription inactive")
    ELSE IF dir[apiKey].used >= dir[apiKey].limit
        THEN Verdict(429, "Monthly try-on limit reached")
    ELSE Admitted

verifyCustomerApiKey(apiKey, dir) ==
    IF apiKey = Absent THEN Verdict(401, "Missing X-Vmize-API-Key header")
    ELSE IF /\ ~StartsWith(apiKey, <<"vmize", "pk", "live">>)
            /\ ~StartsWith(apiKey, <<"vmize", "pk", "test">>)
        THEN Verdict(401, "Invalid API key format")
    ELSE IF dir[apiKey] = NoCustomer THEN Verdict(401, "Invalid API key")
    ELSE IF dir[apiKey].status # "active" THEN Verdict(403, "Subscription inactive")
    ELSE IF dir[apiKey].used >= dir[apiKey].limit
        THEN Verdict(429, "Monthly try-on limit reached")
    ELSE Admitted

\* Customer.hasExceededLimit of the Customer model
hasExceededLimit(customer) == customer.used + 1 > customer.limit

\* Customer.getRemainingUsage of the Customer model
getRemainingUsage(customer) ==
    IF customer.limit - customer.used < 0 THEN 0 ELSE customer.limit - customer.used

\* verifyCustomerApiKey of the Customer-model backed gateway without its
\* subscriptionStatus check
verifyCustomerApiKeyDbNoStatus(apiKey, dir) ==
    IF apiKey = Absent THEN Verdict(401, "Missing X-Vmize-API-Key header")
    ELSE IF /\ ~StartsWith(apiKey, <<"vmize", "pk", "live">>)
            /\ ~StartsWith(apiKey, <<"vmize", "pk", "test">>)
        THEN Verdict(401, "Invalid API key format")
    ELSE IF dir[apiKey] = NoCustomer THEN Verdict(401, "Invalid API key")
    ELSE IF hasExceededLimit(dir[apiKey])
        THEN Verdict(429, "Monthly try-on limit reached")
    ELSE Admitted

verifyCustomerApiKeyDb(apiKey, dir) ==
    IF apiKey = Absent THEN Verdict(401, "Missing X-Vmize-API-Key header")
    ELSE IF /\ ~StartsWith(apiKey, <<"vmize", "pk", "live">>)
            /\ ~StartsWith(apiKey, <<"vmize", "pk", "test">>)
        THEN Verdict(401, "Invalid API key format")
    ELSE IF dir[apiKey] = NoCustomer THEN Verdict(401, "Invalid API key")
    ELSE IF dir[apiKey].status # "active" THEN Verdict(403, "Subscription inactive")
    ELSE IF hasExceededLimit(dir[apiKey])
        THEN Verdict(429, "Monthly try-on limit reached")
    ELSE Admitted

(***************************************************************************)
(* Requests.  A slot holds one request from its arrival until its response *)
(* has left the gateway; the slot is then free for the next request.       *)
(***************************************************************************)
NewRequest ==
    [pc |-> "new", endpoint |-> "none", header |-> Absent, key |-> Absent,
     body |-> FALSE, status |-> 0, reason |-> "", hasRemaining |-> FALSE,
     remaining |-> 0, units |-> 0, upstream |-> FALSE, outcome |-> "none",
     tries |-> 0, records |-> <<>>]

\* No response is waiting to leave.  A response leaves before the event loop
\* runs the next handler: sending it touches no state of the gateway, so the
\* order loses no behaviour.
\* Nothing runs once the process has ended ("dead").
Quiet == \A r \in Slots : req[r].pc \notin {"done", "dead"}

\* a request arrives in the first free slot
NextSlot(r) ==
    /\ Quiet
    /\ arrived < MaxReq
    /\ req[r].pc = "new"
    /\ \A q \in Slots : q < r => req[q].pc # "new"

\* res.status(status).json({error: reason}) sent by a middleware or a handler
Answer(r, ep, hdr, key, body, status, reason) ==
    [NewRequest EXCEPT !.pc = "done", !.endpoint = ep, !.header = hdr, !.key = key,
                       !.body = body, !.status = status, !.reason = reason]

\* the handler of request r goes on after next()
Proceed(r, ep, hdr, key, body, pc) ==
    [NewRequest EXCEPT !.pc = pc, !.endpoint = ep, !.header = hdr, !.key = key,
                       !.body = body]

\* submit calls of a key between admission and the recording of their outcome
InflightPcs == {"validate", "upstream", "fetch"}

Inflight(rq, key) ==
    Cardinality({r \in Slots : /\ rq[r].key = key
                               /\ rq[r].endpoint \in {"tryon", "generate"}
                               /\ rq[r].pc \in InflightPcs})

Max(a, b) == IF a > b THEN a ELSE b

NoteInflight(rq) == [k \in KeyValues |-> Max(maxInflight[k], Inflight(rq, k))]

(***************************************************************************)
(* Analytics tracker, as far as the gateway drives it: the event counters  *)
(* and the number of call records by outcome.                              *)
(***************************************************************************)
EventNames == {"tryon_initiated", "photo_uploaded", "result_generated",
               "result_viewed", "api_error"}

FreshAnalytics ==
    [events |-> [e \in EventNames |-> 0], success |-> 0, error |-> 0]

\* AnalyticsTracker.trackEvent up to its await of saveData
trackEvent(a, eventName) ==
    [a EXCEPT !.events[eventName] = @ + 1]

\* AnalyticsTracker.trackApiCall up to its await of saveData
trackApiCall(a, status) ==
    IF status = "success" THEN [a EXCEPT !.success = @ + 1]
    ELSE [a EXCEPT !.error = @ + 1]

(***************************************************************************)
(* Monthly billing job (cron.schedule in unnamed/part_004).  The Customer  *)
(* model and stripeService are not part of the sources; their methods are  *)
(* written from the specification of the billing reconciler.               *)
(***************************************************************************)
\* number of customer documents
NumCustomers == 2
\* number of times the billing schedule fires in one behaviour
MaxRuns == 2
\* overage price of one try-on, in cents
OverageRate == 50

CustomerIds == 1..NumCustomers

\* largest usage a customer accumulates: the quota plus one call of overshoot
MaxUsed == PlanLimit + 1

\* a Customer document, as far as the billing job reads and writes it
Document(status, used) ==
    [status |-> status, used |-> used, limit |-> PlanLimit, usageHistory |-> <<>>]

\* Customer.calculateOverage
calculateOverage(customer) ==
    LET overage == Max(0, customer.used - customer.limit)
    IN  [overage |-> overage, cost |-> overage * OverageRate]

\* Customer.resetMonthlyUsage: the month is archived, the counter restarts
resetMonthlyUsage(customer) ==
    [customer EXCEPT !.usageHistory = Append(@, customer.used), !.used = 0]

\* Customer.find({ subscriptionStatus: 'active' }), in collection order
FindActive(docs) ==
    SelectSeq([i \in 1..NumCustomers |-> i], LAMBDA c : docs[c].status = "active")

\* the job between two firings of the schedule
IdleRun(docs) ==
    [pc |-> "idle", queue |-> <<>>, atStart |-> docs, done |-> {}, failed |-> {},
     count |-> 0]

CronAtRest ==
    /\ customers = [c \in CustomerIds |-> Document("active", 0)]
    /\ run = IdleRun(customers)
    /\ charges = <<>>

(***************************************************************************)
(* AnalyticsTracker (unnamed/part_001) in full: the call log, the customer *)
(* rollups, the daily statistics, the event counters, and the JSON file    *)
(* the tracker saves to and loads from.                                    *)
(***************************************************************************)
\* number of tracker operations in one behaviour
MaxOps == 4
\* number of calendar days the clock passes through
MaxDate == 2
\* revenue carried by a purchase event
RevenueUnit == 10

Dates == 1..MaxDate

TrackerCustomers == {"c1", "c2"}

\* customerId: req.customer?.customerId || null
NullId == "null"

CallerIds == TrackerCustomers \cup {NullId}

\* the counters the constructor creates
FunnelEvents == EventNames \cup {"add_to_cart", "purchase"}

\* a name every JavaScript object inherits from Object.prototype
InheritedNames == {"constructor"}

\* event names: the constructor's, an inherited one, one nobody defined
AllNames == FunnelEvents \cup InheritedNames \cup {"custom"}

\* JavaScript values of a counter slot
Num(n) == [kind |-> "number", n |-> n]
Undefined == [kind |-> "undefined", n |-> 0]
NaN == [kind |-> "NaN", n |-> 0]
Null == [kind |-> "null", n |-> 0]
Function == [kind |-> "function", n |-> 0]

\* obj[name]: the own property, else what the prototype chain gives
Lookup(counts, name) ==
    IF counts[name] # Undefined THEN counts[name]
    ELSE IF name \in InheritedNames THEN Function
    ELSE Undefined

\* v++ : the value stored back
PlusOne(v) ==
    IF v.kind = "number" THEN Num(v.n + 1)
    ELSE IF v.kind = "null" THEN Num(1)
    ELSE NaN

\* v || 0 for a counter
OrZero(v) == IF v.kind = "number" THEN v.n ELSE 0

\* new Set(): uniqueCustomers of a day; after JSON it is a plain object {}
SetOf(members) == [kind |-> "Set", members |-> members]
PlainObject == [kind |-> "Object", members |-> {}]

NoDay ==
    [exists |-> FALSE, totalCalls |-> 0, successfulCalls |-> 0, failedCalls |-> 0,
     uniqueCustomers |-> SetOf({}), revenue |-> 0]

NoRollup ==
    [exists |-> FALSE, totalCalls |-> 0, successfulCalls |-> 0, failedCalls |-> 0,
     revenue |-> 0]

\* this.data of the constructor and of reset()
FreshData ==
    [apiCalls |-> <<>>,
     customers |-> [c \in CallerIds |-> NoRollup],
     dailyStats |-> [d \in Dates |-> NoDay],
     eventCounts |-> [e \in AllNames |-> IF e \in FunnelEvents THEN Num(0) ELSE Undefined],
     revenue |-> 0]

\* JSON.stringify(this.data) followed by JSON.parse: a Set becomes {}, NaN
\* becomes null, numbers, arrays and plain objects come back as they were
JsonRoundTrip(d) ==
    [d EXCEPT !.dailyStats = [dt \in Dates |->
                                IF d.dailyStats[dt].exists
                                THEN [d.dailyStats[dt] EXCEPT !.uniqueCustomers = PlainObject]
                                ELSE d.dailyStats[dt]],
              !.eventCounts = [e \in AllNames |->
                                 IF d.eventCounts[e] = NaN THEN Null ELSE d.eventCounts[e]]]

\* saveData: fs.writeFile(this.dataFile, JSON.stringify(this.data))
saveData(d) == [exists |-> TRUE, content |-> JsonRoundTrip(d)]

\* a tracker that has started on an empty directory: loadData found no file
\* and saved the constructor's data
\* no query has been answered yet
NoReply == [kind |-> "none"]

\* readFile of loadData has not read the file yet
NotRead == [kind |-> "pending"]

TrackerAtRest ==
    /\ data = FreshData
    /\ file = saveData(FreshData)
    /\ tracker = [today |-> 1, loading |-> FALSE, ops |-> 0, threw |-> FALSE,
                  saved |-> FreshData, reply |-> NoReply, writes |-> <<>>,
                  read |-> NotRead]
    /\ history = <<>>

\* the admin routes after `issued` keys were issued and before any call;
\* caller is the X-Vmize-API-Key header of the last reset request
AdminAtRest(issued) == [clock |-> issued, status |-> 0, revoked |-> {}, caller |-> Absent]

Init ==
    /\ CronAtRest
    /\ TrackerAtRest
    /\ variant \in Variants
    /\ \/ /\ variant = "analytics"
          /\ directory = [k \in KeyValues |->
                            IF k = DemoKey THEN DemoCustomer ELSE NoCustomer]
          /\ admin = AdminAtRest(0)
       \/ /\ variant = "memory"
          /\ directory = [k \in KeyValues |-> NoCustomer]
          /\ admin = AdminAtRest(0)
       \/ /\ variant = "mongo"
          /\ \/ /\ directory = [k \in KeyValues |-> NoCustomer]
                /\ admin = AdminAtRest(0)
             \/ \E st \in Statuses, lapsed \in BOOLEAN :
                   /\ lapsed => st = "trialing"
                   /\ directory = [k \in KeyValues |->
                                     IF k = LiveKey THEN Customer("c1", st, lapsed, 0)
                                     ELSE NoCustomer]
                   /\ admin = AdminAtRest(1)
    /\ req = [r \in Slots |-> NewRequest]
    /\ analytics = FreshAnalytics
    /\ reset = "idle"
    /\ arrived = 0
    /\ maxInflight = [k \in KeyValues |-> 0]
    /\ successes = [k \in KeyValues |-> 0]

(***************************************************************************)
(* Gateway with analytics (vmize-proxy-server-with-analytics.js)           *)
(***************************************************************************)
\* verifyVmizeKey followed by doTryOn up to its first await
AdmitTryOn(r, ep, hdr, apiKey, body) ==
    LET v == verifyVmizeKey(apiKey, directory) IN
    IF v.status # 0
    THEN /\ req' = [req EXCEPT ![r] = Answer(r, ep, hdr, Absent, body, v.status, v.reason)]
         /\ UNCHANGED <<analytics, maxInflight>>
    ELSE /\ req' = [req EXCEPT ![r] = Proceed(r, ep, hdr, apiKey, body, "validate")]
         /\ analytics' = trackEvent(analytics, "tryon_initiated")
         /\ maxInflight' = NoteInflight(req')

\* POST /api/tryon
PostTryOn(r, hdr, body) ==
    /\ variant = "analytics"
    /\ NextSlot(r)
    /\ AdmitTryOn(r, "tryon", hdr, hdr, body)
    /\ arrived' = arrived + 1
    /\ UNCHANGED <<cronVars, trackerVars, admin, variant, directory, reset, successes>>

\* POST /api/tryon/generate: the demo key is injected when the header is missing
PostGenerate(r, hdr, body) ==
    /\ variant = "analytics"
    /\ NextSlot(r)
    /\ AdmitTryOn(r, "generate", hdr, IF hdr = Absent THEN DemoKey ELSE hdr, body)
    /\ arrived' = arrived + 1
    /\ UNCHANGED <<cronVars, trackerVars, admin, variant, directory, reset, successes>>

\* doTryOn: the image check, the photo_uploaded event and the call of axios.post
Validate(r) ==
    /\ Quiet
    /\ req[r].pc = "validate"
    /\ IF ~req[r].body
       THEN /\ analytics' = trackApiCall(analytics, "error")
            /\ req' = [req EXCEPT ![r].pc = "errEvent",
                                   ![r].records = Append(@, "error")]
       ELSE /\ analytics' = trackEvent(analytics, "photo_uploaded")
            /\ req' = [req EXCEPT ![r].pc = "upstream", ![r].upstream = TRUE]
    /\ UNCHANGED <<cronVars, trackerVars, admin, variant, arrived, directory, reset, maxInflight, successes>>

\* how the provider call settles: a 2xx answer, a non-2xx answer, or no answer
\* at all (the timeout expired or the network failed)
UpstreamOutcomes == {"ok", "rejected", "unavailable"}

Used(dir, key) == IF dir[key] = NoCustomer THEN 0 ELSE dir[key].used

\* the usage increment placed before the provider call, so that a failed call
\* is counted as well
IncrementUsedBeforeCall(dir, key, outcome) ==
    IF dir[key] # NoCustomer
    THEN [dir EXCEPT ![key].used = @ + 1]
    ELSE dir

\* doTryOn: if (req.apiKey && demoKeys[req.apiKey]) demoKeys[req.apiKey].used++,
\* which only a call that axios.post answered reaches
IncrementUsed(dir, key, outcome) ==
    IF outcome = "ok" /\ dir[key] # NoCustomer
    THEN [dir EXCEPT ![key].used = @ + 1]
    ELSE dir

\* doTryOn: axios.post settles; usage increment and call record on success,
\* the catch block's call record on failure
UpstreamReturn(r, outcome) ==
    /\ Quiet
    /\ variant = "analytics"
    /\ req[r].pc = "upstream"
    /\ directory' = IncrementUsed(directory, req[r].key, outcome)
    /\ IF outcome = "ok"
       THEN /\ analytics' = trackApiCall(analytics, "success")
            /\ req' = [req EXCEPT ![r].pc = "respond", ![r].outcome = outcome,
                                   ![r].records = Append(@, "success"),
                                   ![r].units = Used(directory', req[r].key)
                                                  - Used(directory, req[r].key)]
            /\ successes' = [successes EXCEPT ![req[r].key] = @ + 1]
       ELSE /\ analytics' = trackApiCall(analytics, "error")
            /\ req' = [req EXCEPT ![r].pc = "errEvent", ![r].outcome = outcome,
                                   ![r].records = Append(@, "error"),
                                   ![r].units = Used(directory', req[r].key)
                                                  - Used(directory, req[r].key)]
            /\ UNCHANGED successes
    /\ UNCHANGED <<cronVars, trackerVars, admin, variant, arrived, reset, maxInflight>>

\* process.env.FASHN_API_KEY: the credential the gateway presents to the provider
FASHN_API_KEY == "fashn-secret-1"

\* values the credential can be configured with
Credentials == {"fashn-secret-1", "fashn-secret-2"}

\* doTryOn, catch block: error.message, echoing the Authorization header of the
\* request the provider rejected
doTryOnErrorWithHeader(cred, body, outcome) ==
    IF cred = "" THEN "FASHN_API_KEY not configured"
    ELSE IF ~body THEN "Both model_image and garment_image are required"
    ELSE IF outcome = "rejected" THEN cred
    ELSE "axiosErr.message"

\* doTryOn, catch block: error.message, which is the text of whichever throw
\* of the try block was reached
doTryOnError(cred, body, outcome) ==
    IF cred = "" THEN "FASHN_API_KEY not configured"
    ELSE IF ~body THEN "Both model_image and garment_image are required"
    ELSE IF outcome = "rejected" THEN "Fashn API error: status"
    ELSE "axiosErr.message"

\* GET /api/tryon/:id, catch block: error.message
statusError(cred, outcome) ==
    IF cred = "" THEN "FASHN_API_KEY not configured"
    ELSE "Status check failed"

\* the error text of a 500 response, by gateway and route, for a given credential
ErrorBody(cred, rq) ==
    IF variant = "analytics"
    THEN IF rq.endpoint = "status" THEN statusError(cred, rq.outcome)
         ELSE doTryOnError(cred, rq.body, rq.outcome)
    ELSE "Internal Server Error"

\* limit - used, as the response bodies of doTryOn and GET /api/usage compute it
Remaining(customer) == customer.limit - customer.used

\* doTryOn: res.json({prediction_id, status, used, remaining})
Respond(r) ==
    /\ Quiet
    /\ req[r].pc = "respond"
    /\ req' = [req EXCEPT ![r].pc = "done", ![r].status = 200, ![r].reason = "ok",
                           ![r].hasRemaining = TRUE,
                           ![r].remaining = Remaining(directory[req[r].key])]
    /\ UNCHANGED <<cronVars, trackerVars, admin, variant, arrived, directory, analytics, reset, maxInflight, successes>>

\* doTryOn, catch block: the api_error event
ErrEvent(r) ==
    /\ Quiet
    /\ req[r].pc = "errEvent"
    /\ analytics' = trackEvent(analytics, "api_error")
    /\ req' = [req EXCEPT ![r].pc = "errRespond"]
    /\ UNCHANGED <<cronVars, trackerVars, admin, variant, arrived, directory, reset, maxInflight, successes>>

\* doTryOn, catch block: res.status(500).json({error, used, remaining})
ErrRespond(r) ==
    /\ Quiet
    /\ req[r].pc = "errRespond"
    /\ req' = [req EXCEPT ![r].pc = "done", ![r].status = 500,
                           ![r].reason = doTryOnError(FASHN_API_KEY, req[r].body,
                                                      req[r].outcome),
                           ![r].hasRemaining = TRUE,
                           ![r].remaining = Remaining(directory[req[r].key])]
    /\ UNCHANGED <<cronVars, trackerVars, admin, variant, arrived, directory, analytics, reset, maxInflight, successes>>

\* GET /api/tryon/:id: key injection, verifyVmizeKey and the call of axios.get
GetStatus(r, hdr) ==
    /\ variant = "analytics"
    /\ NextSlot(r)
    /\ LET apiKey == IF hdr = Absent THEN DemoKey ELSE hdr
           v == verifyVmizeKey(apiKey, directory) IN
       req' = [req EXCEPT ![r] =
                 IF v.status # 0
                 THEN Answer(r, "status", hdr, Absent, FALSE, v.status, v.reason)
                 ELSE [Proceed(r, "status", hdr, apiKey, FALSE, "poll")
                          EXCEPT !.upstream = TRUE]]
    /\ arrived' = arrived + 1
    /\ UNCHANGED <<cronVars, trackerVars, admin, variant, directory, analytics, reset, maxInflight, successes>>

StatusOutcomes == {"completed", "processing", "rejected", "unavailable"}

\* req.params.id: the try-on jobs the clients poll; every poll names this job
JobIds == {"job1"}

\* GET /api/tryon/:id: axios.get settles; the call record, then the response
\* unless the job is completed
StatusReturn(r, outcome) ==
    /\ Quiet
    /\ variant = "analytics"
    /\ req[r].pc = "poll"
    /\ IF outcome = "completed"
       THEN /\ analytics' = trackApiCall(analytics, "success")
            /\ req' = [req EXCEPT ![r].pc = "pollGenerated", ![r].outcome = outcome,
                                   ![r].records = Append(@, "success")]
       ELSE IF outcome = "processing"
       THEN /\ analytics' = trackApiCall(analytics, "success")
            /\ req' = [req EXCEPT ![r].pc = "done", ![r].status = 200,
                                   ![r].reason = "ok", ![r].outcome = outcome,
                                   ![r].records = Append(@, "success")]
       ELSE /\ analytics' = trackApiCall(analytics, "error")
            /\ req' = [req EXCEPT ![r].pc = "done", ![r].status = 500,
                                   ![r].reason = statusError(FASHN_API_KEY, outcome),
                                   ![r].outcome = outcome,
                                   ![r].records = Append(@, "error")]
    /\ UNCHANGED <<cronVars, trackerVars, admin, variant, arrived, directory, reset, maxInflight, successes>>

\* GET /api/tryon/:id, completed job: the result_generated event
PollGenerated(r) ==
    /\ Quiet
    /\ req[r].pc = "pollGenerated"
    /\ analytics' = trackEvent(analytics, "result_generated")
    /\ req' = [req EXCEPT ![r].pc = "pollViewed"]
    /\ UNCHANGED <<cronVars, trackerVars, admin, variant, arrived, directory, reset, maxInflight, successes>>

\* GET /api/tryon/:id, completed job: the result_viewed event and res.json(data)
PollViewed(r) ==
    /\ Quiet
    /\ req[r].pc = "pollViewed"
    /\ analytics' = trackEvent(analytics, "result_viewed")
    /\ req' = [req EXCEPT ![r].pc = "done", ![r].status = 200, ![r].reason = "ok"]
    /\ UNCHANGED <<cronVars, trackerVars, admin, variant, arrived, directory, reset, maxInflight, successes>>

\* GET /api/usage
GetUsage(r, hdr) ==
    /\ variant = "analytics"
    /\ NextSlot(r)
    /\ LET v == verifyVmizeKey(hdr, directory) IN
       req' = [req EXCEPT ![r] =
                 IF v.status # 0
                 THEN Answer(r, "usage", hdr, Absent, FALSE, v.status, v.reason)
                 ELSE [Answer(r, "usage", hdr, hdr, FALSE, 200, "ok")
                          EXCEPT !.hasRemaining = TRUE,
                                 !.remaining = Remaining(directory[hdr])]]
    /\ arrived' = arrived + 1
    /\ UNCHANGED <<cronVars, trackerVars, admin, variant, directory, analytics, reset, maxInflight, successes>>

\* what a caller of POST /api/analytics/reset presents: no key, or the key of
\* a customer; the gateway has no credential of an administrator
ResetCallers == {Absent, DemoKey}

\* POST /api/analytics/reset: the route has no middleware, the handler reads
\* no header; analytics.reset() up to its await of saveData
ResetAnalytics(hdr) ==
    /\ Quiet
    /\ variant = "analytics"
    /\ reset = "idle"
    /\ analytics' = FreshAnalytics
    /\ reset' = "saving"
    /\ admin' = [admin EXCEPT !.caller = hdr]
    /\ UNCHANGED <<cronVars, trackerVars, variant, arrived, directory, req, maxInflight, successes>>

\* POST /api/analytics/reset: every demo key's used is set to 0
ResetUsage ==
    /\ Quiet
    /\ reset = "saving"
    /\ directory' = [k \in KeyValues |->
                        IF directory[k] # NoCustomer
                        THEN [directory[k] EXCEPT !.used = 0] ELSE directory[k]]
    /\ successes' = [k \in KeyValues |-> 0]
    /\ reset' = "idle"
    /\ UNCHANGED <<cronVars, trackerVars, admin, variant, arrived, req, analytics, maxInflight>>

(***************************************************************************)
(* Plain gateway (vmize-proxy-server.js, variant "memory") and the         *)
(* Customer-model backed gateway (variant "mongo").  The route handlers    *)
(* of the two files are the same text; they differ in the middleware, in   *)
(* trackUsage, in GET /api/usage and in the admin routes.                  *)
(***************************************************************************)
Proxies == {"memory", "mongo"}

\* trackUsage of vmize-proxy-server.js: it logs, and updates nothing
trackUsage(dir, key, tryonCount) == dir

\* Customer.incrementUsage of the Customer model
incrementUsage(customer, count) == [customer EXCEPT !.used = @ + count]

\* trackUsage of the Customer-model backed gateway
trackUsageDb(dir, key, tryonCount) ==
    IF dir[key] # NoCustomer
    THEN [dir EXCEPT ![key] = incrementUsage(dir[key], tryonCount)]
    ELSE dir

\* POST /api/tryon of both proxies: trackUsage is awaited after response.ok only
TrackedUsage(dir, key, outcome) ==
    IF outcome # "ok" THEN dir
    ELSE IF variant = "memory" THEN trackUsage(dir, key, 1)
    ELSE trackUsageDb(dir, key, 1)

Verify(apiKey, dir) ==
    IF variant = "memory" THEN verifyCustomerApiKey(apiKey, dir)
    ELSE verifyCustomerApiKeyDb(apiKey, dir)

\* POST /api/tryon: middleware, image check and the call of fetch
ProxyPostTryOn(r, hdr, body) ==
    /\ variant \in Proxies
    /\ NextSlot(r)
    /\ LET v == Verify(hdr, directory) IN
       req' = [req EXCEPT ![r] =
                 IF v.status # 0
                 THEN Answer(r, "tryon", hdr, Absent, body, v.status, v.reason)
                 ELSE IF ~body
                 THEN Answer(r, "tryon", hdr, hdr, body, 400, "Bad Request")
                 ELSE [Proceed(r, "tryon", hdr, hdr, body, "fetch")
                          EXCEPT !.upstream = TRUE]]
    /\ maxInflight' = NoteInflight(req')
    /\ arrived' = arrived + 1
    /\ UNCHANGED <<cronVars, trackerVars, admin, variant, directory, analytics, reset, successes>>

\* POST /api/tryon: fetch settles; trackUsage and the 200 on success, the
\* catch block's 500 on failure
ProxyUpstreamReturn(r, outcome) ==
    /\ Quiet
    /\ variant \in Proxies
    /\ req[r].pc = "fetch"
    /\ directory' = TrackedUsage(directory, req[r].key, outcome)
    /\ IF outcome = "ok"
       THEN /\ req' = [req EXCEPT ![r].pc = "done", ![r].status = 200,
                                   ![r].reason = "ok", ![r].outcome = outcome,
                                   ![r].tries = IF variant = "mongo" THEN 1 ELSE 0,
                                   ![r].units = Used(directory', req[r].key)
                                                  - Used(directory, req[r].key)]
            /\ successes' = [successes EXCEPT ![req[r].key] = @ + 1]
       ELSE /\ req' = [req EXCEPT ![r].pc = "done", ![r].status = 500,
                                   ![r].reason = "Internal Server Error",
                                   ![r].outcome = outcome,
                                   ![r].units = Used(directory', req[r].key)
                                                  - Used(directory, req[r].key)]
            /\ UNCHANGED successes
    /\ UNCHANGED <<cronVars, trackerVars, admin, variant, arrived, analytics, reset, maxInflight>>

\* GET /api/tryon/:id: middleware and the call of fetch
ProxyGetStatus(r, hdr) ==
    /\ variant \in Proxies
    /\ NextSlot(r)
    /\ LET v == Verify(hdr, directory) IN
       req' = [req EXCEPT ![r] =
                 IF v.status # 0
                 THEN Answer(r, "status", hdr, Absent, FALSE, v.status, v.reason)
                 ELSE [Proceed(r, "status", hdr, hdr, FALSE, "pollFetch")
                          EXCEPT !.upstream = TRUE]]
    /\ arrived' = arrived + 1
    /\ UNCHANGED <<cronVars, trackerVars, admin, variant, directory, analytics, reset, maxInflight, successes>>

\* GET /api/tryon/:id: fetch settles
ProxyStatusReturn(r, outcome) ==
    /\ Quiet
    /\ req[r].pc = "pollFetch"
    /\ req' = [req EXCEPT ![r].pc = "done", ![r].outcome = outcome,
                           ![r].status = IF outcome \in {"completed", "processing"}
                                         THEN 200 ELSE 500,
                           ![r].reason = IF outcome \in {"completed", "processing"}
                                         THEN "ok" ELSE "Internal Server Error"]
    /\ UNCHANGED <<cronVars, trackerVars, admin, variant, arrived, directory, analytics, reset, maxInflight, successes>>

\* GET /api/usage
ProxyGetUsage(r, hdr) ==
    /\ variant \in Proxies
    /\ NextSlot(r)
    /\ LET v == Verify(hdr, directory) IN
       req' = [req EXCEPT ![r] =
                 IF v.status # 0
                 THEN Answer(r, "usage", hdr, Absent, FALSE, v.status, v.reason)
                 ELSE [Answer(r, "usage", hdr, hdr, FALSE, 200, "ok")
                          EXCEPT !.hasRemaining = TRUE,
                                 !.remaining =
                                    IF variant = "memory"
                                    THEN Remaining(directory[hdr])
                                    ELSE getRemainingUsage(directory[hdr])]]
    /\ arrived' = arrived + 1
    /\ UNCHANGED <<cronVars, trackerVars, admin, variant, directory, analytics, reset, maxInflight, successes>>

\* POST /admin/generate-key of vmize-proxy-server.js: a key is stored with a
\* fresh record; two issuances read two different values of Date.now()
GenerateKey(customerId) ==
    /\ Quiet
    /\ variant = "memory"
    /\ admin.clock < MaxIssued
    /\ LET apiKey == GeneratedKey(customerId, admin.clock + 1) IN
       /\ directory' = [directory EXCEPT ![apiKey] = Customer(customerId, "active", FALSE, 0)]
       /\ successes' = [successes EXCEPT ![apiKey] = 0]
    /\ admin' = [admin EXCEPT !.clock = @ + 1, !.status = 200]
    /\ UNCHANGED <<cronVars, trackerVars, variant, arrived, req, analytics, reset, maxInflight>>

\* POST /admin/revoke-key of vmize-proxy-server.js: the key is deleted, or
\* 404 when the map does not have it
RevokeKey(apiKey) ==
    /\ Quiet
    /\ variant = "memory"
    /\ IF directory[apiKey] # NoCustomer
       THEN /\ directory' = [directory EXCEPT ![apiKey] = NoCustomer]
            /\ admin' = [admin EXCEPT !.status = 200, !.revoked = @ \cup {apiKey}]
       ELSE /\ directory' = directory
            /\ admin' = [admin EXCEPT !.status = 404]
    /\ UNCHANGED <<cronVars, trackerVars, variant, arrived, req, analytics, reset, maxInflight, successes>>

\* the keys of the customer documents with a given customer id
KeysOf(dir, customerId) ==
    {k \in KeyValues : dir[k] # NoCustomer /\ dir[k].id = customerId}

\* POST /admin/generate-key of the Customer-model backed gateway: 400 when the
\* customer exists, else a new customer document with a key of its own
GenerateKeyDb(status) ==
    /\ Quiet
    /\ variant = "mongo"
    /\ admin.clock < MaxIssued
    /\ IF KeysOf(directory, "c1") # {}
       THEN /\ directory' = directory
            /\ admin' = [admin EXCEPT !.status = 400]
       ELSE /\ directory' = [directory EXCEPT ![GeneratedKey("c1", admin.clock + 1)] =
                                Customer("c1", status, FALSE, 0)]
            /\ admin' = [admin EXCEPT !.clock = @ + 1, !.status = 200]
    /\ UNCHANGED <<cronVars, trackerVars, variant, arrived, req, analytics, reset, maxInflight, successes>>

\* POST /admin/revoke-key of the Customer-model backed gateway: the customer
\* is kept, with subscriptionStatus inactive; 404 when no customer has the key
RevokeKeyDb(apiKey) ==
    /\ Quiet
    /\ variant = "mongo"
    /\ IF directory[apiKey] # NoCustomer
       THEN /\ directory' = [directory EXCEPT ![apiKey].status = "inactive"]
            /\ admin' = [admin EXCEPT !.status = 200, !.revoked = @ \cup {apiKey}]
       ELSE /\ directory' = directory
            /\ admin' = [admin EXCEPT !.status = 404]
    /\ UNCHANGED <<cronVars, trackerVars, variant, arrived, req, analytics, reset, maxInflight, successes>>

\* DELETE /admin/customers/:id of the admin dashboard routes: the customer
\* document is deleted from the collection; 404 when there is none
DeleteCustomer(customerId) ==
    /\ Quiet
    /\ variant = "mongo"
    /\ IF KeysOf(directory, customerId) # {}
       THEN /\ directory' = [k \in KeyValues |->
                                IF k \in KeysOf(directory, customerId) THEN NoCustomer
                                ELSE directory[k]]
            /\ admin' = [admin EXCEPT !.status = 200]
       ELSE /\ directory' = directory
            /\ admin' = [admin EXCEPT !.status = 404]
    /\ UNCHANGED <<cronVars, trackerVars, variant, arrived, req, analytics, reset, maxInflight, successes>>

\* the response of request r has left the gateway
Deliver(r) ==
    /\ req[r].pc = "done"
    /\ req' = [req EXCEPT ![r] = NewRequest]
    /\ UNCHANGED <<cronVars, trackerVars, admin, variant, arrived, directory, analytics, reset, maxInflight, successes>>

Next ==
    \/ \E r \in Slots : Deliver(r)
    \/ \E r \in Slots, hdr \in Headers, body \in BOOLEAN : PostTryOn(r, hdr, body)
    \/ \E r \in Slots, hdr \in Headers, body \in BOOLEAN : PostGenerate(r, hdr, body)
    \/ \E r \in Slots : Validate(r)
    \/ \E r \in Slots, outcome \in UpstreamOutcomes : UpstreamReturn(r, outcome)
    \/ \E r \in Slots : Respond(r)
    \/ \E r \in Slots : ErrEvent(r)
    \/ \E r \in Slots : ErrRespond(r)
    \/ \E r \in Slots, hdr \in Headers : GetStatus(r, hdr)
    \/ \E r \in Slots, outcome \in StatusOutcomes : StatusReturn(r, outcome)
    \/ \E r \in Slots : PollGenerated(r)
    \/ \E r \in Slots : PollViewed(r)
    \/ \E r \in Slots, hdr \in Headers : GetUsage(r, hdr)
    \/ \E r \in Slots, hdr \in Headers, body \in BOOLEAN : ProxyPostTryOn(r, hdr, body)
    \/ \E r \in Slots, outcome \in UpstreamOutcomes : ProxyUpstreamReturn(r, outcome)
    \/ \E r \in Slots, hdr \in Headers : ProxyGetStatus(r, hdr)
    \/ \E r \in Slots, outcome \in StatusOutcomes : ProxyStatusReturn(r, outcome)
    \/ \E r \in Slots, hdr \in Headers : ProxyGetUsage(r, hdr)
    \/ \E customerId \in {"c1"} : GenerateKey(customerId)
    \/ \E apiKey \in KeyValues : RevokeKey(apiKey)
    \/ \E status \in {"active", "trialing"} : GenerateKeyDb(status)
    \/ \E apiKey \in KeyValues : RevokeKeyDb(apiKey)
    \/ \E customerId \in {"c1"} : DeleteCustomer(customerId)

\* the gateway together with the administrative reset
NextReset ==
    \/ Next
    \/ \E hdr \in ResetCallers : ResetAnalytics(hdr)
    \/ ResetUsage

Spec == Init /\ [][Next]_vars

SpecReset == Init /\ [][NextReset]_vars

(***************************************************************************)
(* Failures of the gateway's own collaborators while a request is handled: *)
(* the customer lookup, the usage write and the analytics write.           *)
(***************************************************************************)
\* the process ends: no request in flight is answered, none is served later
Crash(rq) == [q \in Slots |-> [rq[q] EXCEPT !.pc = "dead"]]

\* what becomes of a promise rejected inside an async middleware: Express 4
\* leaves it unhandled and Node ends the process, Express 5 forwards it to
\* the error handler, which answers 500
RejectionOutcomes == {"unhandled", "forwarded"}

\* verifyCustomerApiKey of the Customer-model backed gateway when
\* Customer.findOne rejects: the await is not inside a try block
LookupFails(r, ep, hdr, how) ==
    /\ variant = "mongo"
    /\ NextSlot(r)
    /\ ep \in {"tryon", "status", "usage"}
    /\ \/ StartsWith(hdr, <<"vmize", "pk", "live">>)
       \/ StartsWith(hdr, <<"vmize", "pk", "test">>)
    /\ req' = IF how = "unhandled"
              THEN Crash([req EXCEPT ![r] = Proceed(r, ep, hdr, Absent, FALSE, "lookup")])
              ELSE [req EXCEPT ![r] = Answer(r, ep, hdr, Absent, FALSE, 500,
                                             "Internal Server Error")]
    /\ arrived' = arrived + 1
    /\ UNCHANGED <<cronVars, trackerVars, admin, variant, directory, analytics, reset,
                   maxInflight, successes>>

\* GET /api/tryon/:id of the analytics gateway when trackApiCall throws (the
\* day's uniqueCustomers was loaded from the file and has no add method): the
\* catch block calls trackApiCall again, outside any try block, inside a
\* callback whose promise nobody holds
StatusTrackFails(r) ==
    /\ Quiet
    /\ variant = "analytics"
    /\ req[r].pc = "poll"
    /\ req' = Crash(req)
    /\ UNCHANGED <<cronVars, trackerVars, admin, variant, arrived, directory, analytics,
                   reset, maxInflight, successes>>

\* POST /api/tryon of the Customer-model backed gateway when the provider
\* answered 2xx and customer.incrementUsage rejects: trackUsage is awaited once
\* inside the try block, the catch block answers 500
PersistFails(r) ==
    /\ Quiet
    /\ variant = "mongo"
    /\ req[r].pc = "fetch"
    /\ directory[req[r].key] # NoCustomer
    /\ req' = [req EXCEPT ![r].pc = "done", ![r].status = 500,
                           ![r].reason = "Internal Server Error",
                           ![r].outcome = "ok", ![r].tries = 1]
    /\ UNCHANGED <<cronVars, trackerVars, admin, variant, arrived, directory, analytics,
                   reset, maxInflight, successes>>

NextFaults ==
    \/ Next
    \/ \E r \in Slots, ep \in {"tryon", "status", "usage"}, hdr \in Headers,
          how \in RejectionOutcomes : LookupFails(r, ep, hdr, how)
    \/ \E r \in Slots : StatusTrackFails(r)
    \/ \E r \in Slots : PersistFails(r)

SpecFaults == Init /\ [][NextFaults]_vars

(***************************************************************************)
(* Properties                                                              *)
(***************************************************************************)
(***************************************************************************)
(* Monthly billing job: one action per stretch between two awaits          *)
(***************************************************************************)
GatewayAtRest ==
    /\ directory = [k \in KeyValues |-> NoCustomer]
    /\ req = [r \in Slots |-> NewRequest]
    /\ analytics = FreshAnalytics
    /\ reset = "idle"
    /\ arrived = 0
    /\ maxInflight = [k \in KeyValues |-> 0]
    /\ successes = [k \in KeyValues |-> 0]
    /\ admin = AdminAtRest(0)

gatewayVars == <<variant, directory, req, analytics, reset, arrived, maxInflight, successes,
                 admin>>

\* the schedule fires: the callback runs up to await Customer.find
BillingJob ==
    /\ run.pc = "idle"
    /\ run.count < MaxRuns
    /\ run' = [run EXCEPT !.pc = "find", !.count = @ + 1, !.done = {}, !.failed = {},
                          !.queue = <<>>]
    /\ UNCHANGED <<gatewayVars, trackerVars, customers, charges>>

\* Customer.find resolves with the active customers
BillingFind ==
    /\ run.pc = "find"
    /\ run' = [run EXCEPT !.pc = "next", !.queue = FindActive(customers),
                          !.atStart = customers]
    /\ UNCHANGED <<gatewayVars, trackerVars, customers, charges>>

\* one turn of the for loop up to its first await: calculateOverage on the
\* document Customer.find loaded, then
\* createOverageCharge if cost > 0, resetMonthlyUsage otherwise; after the
\* last customer the job logs its completion
BillingNext ==
    /\ run.pc = "next"
    /\ IF run.queue = <<>>
       THEN /\ run' = [run EXCEPT !.pc = "idle"]
            /\ UNCHANGED charges
       ELSE LET c == Head(run.queue)
                o == calculateOverage(run.atStart[c])
            IN  IF o.cost > 0
                THEN /\ charges' = Append(charges, [run |-> run.count, customer |-> c,
                                                    amount |-> o.cost, overage |-> o.overage])
                     /\ run' = [run EXCEPT !.pc = "charging"]
                ELSE /\ run' = [run EXCEPT !.pc = "resetting"]
                     /\ UNCHANGED charges
    /\ UNCHANGED <<gatewayVars, trackerVars, customers>>

\* what the billing collaborator does with a charge call
ChargeOutcomes == {"charged", "failed"}

\* createOverageCharge settles: on success the loop goes on to
\* resetMonthlyUsage; a rejection is thrown out of the for loop into the one
\* catch block around it, which logs and ends the job
ChargeReturn(outcome) ==
    /\ run.pc = "charging"
    /\ IF outcome = "charged"
       THEN run' = [run EXCEPT !.pc = "resetting"]
       ELSE run' = [run EXCEPT !.pc = "idle", !.failed = @ \cup {Head(run.queue)}]
    /\ UNCHANGED <<gatewayVars, trackerVars, customers, charges>>

\* resetMonthlyUsage resolves; the loop turns to the next customer
ResetReturn ==
    /\ run.pc = "resetting"
    /\ customers' = [customers EXCEPT ![Head(run.queue)] = resetMonthlyUsage(@)]
    /\ run' = [run EXCEPT !.pc = "next", !.queue = Tail(@),
                          !.done = @ \cup {Head(run.queue)}]
    /\ UNCHANGED <<gatewayVars, trackerVars, charges>>

\* between two runs of the job: a try-on of an active customer is counted
\* (trackUsage -> Customer.incrementUsage)
UseTryOn(c) ==
    /\ run.pc = "idle"
    /\ customers[c].status = "active"
    /\ customers[c].used < MaxUsed
    /\ customers' = [customers EXCEPT ![c] = incrementUsage(@, 1)]
    /\ UNCHANGED <<gatewayVars, trackerVars, run, charges>>

InitBilling ==
    /\ variant = "mongo"
    /\ GatewayAtRest
    /\ TrackerAtRest
    /\ customers \in [CustomerIds -> {Document(st, u) : st \in Statuses, u \in 0..MaxUsed}]
    /\ run = IdleRun(customers)
    /\ charges = <<>>

NextBilling ==
    \/ BillingJob
    \/ BillingFind
    \/ BillingNext
    \/ \E outcome \in ChargeOutcomes : ChargeReturn(outcome)
    \/ ResetReturn
    \/ \E c \in CustomerIds : UseTryOn(c)

SpecBilling == InitBilling /\ [][NextBilling]_vars

\* the billing job when every call it awaits settles: Customer.find,
\* createOverageCharge (it resolves or rejects) and resetMonthlyUsage, and the
\* loop goes on after each
SpecBillingFair ==
    /\ InitBilling
    /\ [][NextBilling]_vars
    /\ WF_vars(BillingFind)
    /\ WF_vars(BillingNext)
    /\ WF_vars(\E outcome \in ChargeOutcomes : ChargeReturn(outcome))
    /\ WF_vars(ResetReturn)

\* while the job awaits createOverageCharge or resetMonthlyUsage: a try-on of
\* an active customer admitted earlier completes and is counted
\* (trackUsage -> Customer.incrementUsage)
TrackUsageDuringRun(c) ==
    /\ run.pc \in {"charging", "resetting"}
    /\ customers[c].status = "active"
    /\ customers[c].used < MaxUsed
    /\ customers' = [customers EXCEPT ![c] = incrementUsage(@, 1)]
    /\ UNCHANGED <<gatewayVars, trackerVars, run, charges>>

\* the billing job with the gateway serving requests during a run
NextBillingLive ==
    \/ NextBilling
    \/ \E c \in CustomerIds : TrackUsageDuringRun(c)

SpecBillingLive == InitBilling /\ [][NextBillingLive]_vars

(***************************************************************************)
(* Try-on router (vmize/backend/routes/tryon.js): POST /generate behind a  *)
(* JSON web token instead of an API key.  The Authorization header is the  *)
(* sequence of its space-separated parts.                                  *)
(***************************************************************************)
Authorizations ==
    {<<>>, <<"Basic", "signed">>, <<"Bearer">>, <<"Bearer", "forged">>,
     <<"Bearer", "expired">>, <<"Bearer", "signed">>}

\* verifyJwt: the token is the second part of a Bearer header; jwt.verify
\* accepts the token signed with the secret
verifyJwt(auth) ==
    IF Len(auth) < 2 \/ auth[1] # "Bearer" THEN Verdict(401, "Missing token")
    ELSE IF auth[2] # "signed" THEN Verdict(401, "Invalid token")
    ELSE Admitted

\* POST /generate: verifyJwt, the image check and the call of fetch
RouterPostGenerate(r, auth, body) ==
    /\ variant = "router"
    /\ NextSlot(r)
    /\ LET v == verifyJwt(auth) IN
       req' = [req EXCEPT ![r] =
                 IF v.status # 0
                 THEN Answer(r, "generate", auth, Absent, body, v.status, v.reason)
                 ELSE IF ~body
                 THEN Answer(r, "generate", auth, Absent, body, 400, "Missing images")
                 ELSE [Proceed(r, "generate", auth, Absent, body, "routerFetch")
                          EXCEPT !.upstream = TRUE]]
    /\ arrived' = arrived + 1
    /\ UNCHANGED <<cronVars, trackerVars, admin, variant, directory, analytics, reset,
                   maxInflight, successes>>

\* how fetch settles for the router: a 2xx answer carrying an image url, a 2xx
\* answer carrying a job id, a non-2xx answer with a JSON body, an answer whose
\* body is not JSON, or no answer at all
RouterOutcomes == {"image", "ok", "rejected", "unparsable", "unavailable"}

\* POST /generate: fetch settles and resp.json() is read; resp.ok and
\* resp.status are never looked at, so every parsed body ends in res.json
RouterFetchReturn(r, outcome) ==
    /\ Quiet
    /\ variant = "router"
    /\ req[r].pc = "routerFetch"
    /\ req' = [req EXCEPT ![r].pc = "done", ![r].outcome = outcome,
                           ![r].status = IF outcome \in {"unparsable", "unavailable"}
                                         THEN 500 ELSE 200,
                           ![r].reason = IF outcome \in {"unparsable", "unavailable"}
                                         THEN "err.message"
                                         ELSE IF outcome = "image" THEN "imageUrl"
                                         ELSE "processing"]
    /\ UNCHANGED <<cronVars, trackerVars, admin, variant, arrived, directory, analytics, reset,
                   maxInflight, successes>>

\* GET /history: verifyJwt, then the empty history
RouterGetHistory(r, auth) ==
    /\ variant = "router"
    /\ NextSlot(r)
    /\ LET v == verifyJwt(auth) IN
       req' = [req EXCEPT ![r] =
                 IF v.status # 0
                 THEN Answer(r, "history", auth, Absent, FALSE, v.status, v.reason)
                 ELSE Answer(r, "history", auth, Absent, FALSE, 200, "ok")]
    /\ arrived' = arrived + 1
    /\ UNCHANGED <<cronVars, trackerVars, admin, variant, directory, analytics, reset,
                   maxInflight, successes>>

\* POST /track-view: no token is asked for, nothing is stored
RouterTrackView(r, auth) ==
    /\ variant = "router"
    /\ NextSlot(r)
    /\ req' = [req EXCEPT ![r] = Answer(r, "track-view", auth, Absent, FALSE, 200, "ok")]
    /\ arrived' = arrived + 1
    /\ UNCHANGED <<cronVars, trackerVars, admin, variant, directory, analytics, reset,
                   maxInflight, successes>>

InitRouter ==
    /\ CronAtRest
    /\ TrackerAtRest
    /\ GatewayAtRest
    /\ variant = "router"

NextRouter ==
    \/ \E r \in Slots : Deliver(r)
    \/ \E r \in Slots, auth \in Authorizations, body \in BOOLEAN :
          RouterPostGenerate(r, auth, body)
    \/ \E r \in Slots, outcome \in RouterOutcomes : RouterFetchReturn(r, outcome)
    \/ \E r \in Slots, auth \in Authorizations : RouterGetHistory(r, auth)
    \/ \E r \in Slots, auth \in Authorizations : RouterTrackView(r, auth)

SpecRouter == InitRouter /\ [][NextRouter]_vars

(***************************************************************************)
(* AnalyticsTracker: its methods as functions of this.data, and one action *)
(* per call of a method                                                    *)
(***************************************************************************)
\* trackApiCall up to await saveData, or up to the TypeError of
\* uniqueCustomers.add when the day's uniqueCustomers is not a Set
recordCall(d, customerId, status, dt) ==
    LET call == [customerId |-> IF customerId = NullId THEN "unknown" ELSE customerId,
                 status |-> status, date |-> dt]
        rollup == IF d.customers[customerId].exists THEN d.customers[customerId]
                  ELSE [NoRollup EXCEPT !.exists = TRUE]
        counted == [rollup EXCEPT
                      !.totalCalls = @ + 1,
                      !.successfulCalls = IF status = "success" THEN @ + 1 ELSE @,
                      !.failedCalls = IF status = "success" THEN @ ELSE @ + 1]
        day == IF d.dailyStats[dt].exists THEN d.dailyStats[dt]
               ELSE [NoDay EXCEPT !.exists = TRUE]
        logged == [d EXCEPT !.apiCalls = Append(@, call), !.customers[customerId] = counted]
    IN  IF day.uniqueCustomers.kind # "Set"
        THEN [data |-> [logged EXCEPT !.dailyStats[dt] = [day EXCEPT !.totalCalls = @ + 1]],
              threw |-> TRUE]
        ELSE [data |-> [logged EXCEPT !.dailyStats[dt] =
                          [day EXCEPT
                             !.totalCalls = @ + 1,
                             !.uniqueCustomers = SetOf(@.members \cup {customerId}),
                             !.successfulCalls = IF status = "success" THEN @ + 1 ELSE @,
                             !.failedCalls = IF status = "success" THEN @ ELSE @ + 1]],
              threw |-> FALSE]

\* trackEvent counting an upload only once a try-on has been initiated
recordEventAfterInitiated(d, eventName, revenue, customerId, dt) ==
    LET counted == [d EXCEPT !.eventCounts[eventName] =
                       IF /\ eventName = "photo_uploaded"
                          /\ d.eventCounts["tryon_initiated"] = Num(0)
                       THEN @
                       ELSE IF Lookup(d.eventCounts, eventName) # Undefined
                       THEN PlusOne(Lookup(d.eventCounts, eventName))
                       ELSE Num(1)]
    IN  IF revenue = 0 THEN counted
        ELSE [counted EXCEPT
                !.revenue = @ + revenue,
                !.customers = [c \in CallerIds |->
                                 IF c = customerId /\ c # NullId /\ @[c].exists
                                 THEN [@[c] EXCEPT !.revenue = @ + revenue]
                                 ELSE @[c]],
                !.dailyStats[dt] = IF @.exists THEN [@ EXCEPT !.revenue = @ + revenue]
                                   ELSE @]

\* trackEvent up to await saveData
recordEvent(d, eventName, revenue, customerId, dt) ==
    LET counted == [d EXCEPT !.eventCounts[eventName] =
                       IF Lookup(d.eventCounts, eventName) # Undefined
                       THEN PlusOne(Lookup(d.eventCounts, eventName))
                       ELSE Num(1)]
    IN  IF revenue = 0 THEN counted
        ELSE [counted EXCEPT
                !.revenue = @ + revenue,
                !.customers = [c \in CallerIds |->
                                 IF c = customerId /\ c # NullId /\ @[c].exists
                                 THEN [@[c] EXCEPT !.revenue = @ + revenue]
                                 ELSE @[c]],
                !.dailyStats[dt] = IF @.exists THEN [@ EXCEPT !.revenue = @ + revenue]
                                   ELSE @]

\* calculateRate, in tenths of a percent as toFixed(1) prints them
calculateRate(numerator, denominator) ==
    IF denominator.kind # "number" \/ denominator.n = 0 THEN Num(0)
    ELSE IF numerator.kind # "number" THEN NaN
    ELSE Num((2000 * numerator.n + denominator.n) \div (2 * denominator.n))

\* getConversionFunnel
getConversionFunnel(d) ==
    LET events == d.eventCounts
    IN  [productView |-> OrZero(events["tryon_initiated"]),
         tryonClick |-> OrZero(events["tryon_initiated"]),
         photoUpload |-> OrZero(events["photo_uploaded"]),
         resultViewed |-> OrZero(events["result_viewed"]),
         addToCart |-> OrZero(events["add_to_cart"]),
         purchase |-> OrZero(events["purchase"]),
         uploadRate |-> calculateRate(events["photo_uploaded"], events["tryon_initiated"]),
         viewRate |-> calculateRate(events["result_viewed"], events["photo_uploaded"]),
         cartRate |-> calculateRate(events["add_to_cart"], events["result_viewed"]),
         purchaseRate |-> calculateRate(events["purchase"], events["add_to_cart"])]

\* loadData after readFile resolved: JSON.parse, then new Set(uniqueCustomers)
\* for each day; new Set of a plain object throws, and the catch block keeps
\* the parsed data as it is
loadData(content) ==
    LET broken == {dt \in Dates : /\ content.dailyStats[dt].exists
                                  /\ content.dailyStats[dt].uniqueCustomers.kind # "Set"}
    IN  [data |-> content, threw |-> broken # {}]

\* the calls of trackEvent the clients make
EventCalls ==
    {[name |-> n, revenue |-> 0, customerId |-> NullId] :
        n \in {"tryon_initiated", "photo_uploaded", "purchase", "custom", "constructor"}}
    \cup {[name |-> "purchase", revenue |-> RevenueUnit, customerId |-> "c1"]}

\* analytics.trackApiCall({customerId, status, ...})
TrackApiCall(customerId, status) ==
    /\ ~tracker.loading
    /\ tracker.ops < MaxOps
    /\ LET r == recordCall(data, customerId, status, tracker.today)
       IN  /\ data' = r.data
           /\ file' = IF r.threw THEN file ELSE saveData(r.data)
           /\ tracker' = [tracker EXCEPT !.ops = @ + 1, !.threw = r.threw,
                                         !.saved = IF r.threw THEN @ ELSE r.data]
    /\ UNCHANGED <<gatewayVars, cronVars, history>>

\* analytics.trackEvent(eventName, data)
TrackEvent(e) ==
    /\ ~tracker.loading
    /\ tracker.ops < MaxOps
    /\ data' = recordEvent(data, e.name, e.revenue, e.customerId, tracker.today)
    /\ file' = saveData(data')
    /\ tracker' = [tracker EXCEPT !.ops = @ + 1, !.threw = FALSE, !.saved = data']
    /\ history' = Append(history, e.name)
    /\ UNCHANGED <<gatewayVars, cronVars>>

\* midnight UTC passes: new Date().toISOString().split('T')[0] changes
Tick ==
    /\ tracker.today < MaxDate
    /\ tracker' = [tracker EXCEPT !.today = @ + 1]
    /\ UNCHANGED <<gatewayVars, cronVars, data, file, history>>

\* the process is restarted: the constructor sets this.data and calls loadData
Restart ==
    /\ ~tracker.loading
    /\ tracker.ops < MaxOps
    /\ data' = FreshData
    /\ tracker' = [tracker EXCEPT !.loading = TRUE, !.ops = @ + 1, !.threw = FALSE]
    /\ UNCHANGED <<gatewayVars, cronVars, file, history>>

\* loadData: readFile resolves
LoadData ==
    /\ tracker.loading
    /\ IF ~file.exists
       THEN /\ file' = saveData(data)
            /\ UNCHANGED data
            /\ tracker' = [tracker EXCEPT !.loading = FALSE, !.saved = data]
       ELSE LET r == loadData(file.content)
            IN  /\ data' = r.data
                /\ file' = IF r.threw THEN saveData(r.data) ELSE file
                /\ tracker' = [tracker EXCEPT !.loading = FALSE,
                                              !.saved = IF r.threw THEN r.data ELSE @]
    /\ UNCHANGED <<gatewayVars, cronVars, history>>

\* number of entries of recentCalls in a summary: slice(-10)
RecentCalls == 10

\* Array.prototype.reverse
Reverse(seq) == [i \in 1..Len(seq) |-> seq[Len(seq) + 1 - i]]

\* Array.prototype.slice(-n): a new array of the last n elements
SliceLast(seq, n) ==
    IF Len(seq) <= n THEN seq ELSE SubSeq(seq, Len(seq) - n + 1, Len(seq))

\* a summary whose recentCalls reverses this.data.apiCalls itself
getAnalyticsSummaryInPlace(d) ==
    [data |-> [d EXCEPT !.apiCalls = Reverse(@)],
     summary |-> [kind |-> "summary",
                  totalApiCalls |-> Len(d.apiCalls),
                  uniqueCustomers |-> Cardinality({c \in CallerIds : d.customers[c].exists}),
                  successRate |-> 0,
                  totalRevenue |-> d.revenue,
                  eventCounts |-> d.eventCounts,
                  recentCalls |-> Reverse(d.apiCalls)]]

\* getAnalyticsSummary: this.data after the call and the object returned;
\* successRate in hundredths of a percent as toFixed(2) prints it; durations
\* and the per-day and per-customer tables of the summary are left out
getAnalyticsSummary(d) ==
    LET totalCalls == Len(d.apiCalls)
        successfulCalls == Cardinality({i \in 1..totalCalls : d.apiCalls[i].status = "success"})
    IN  [data |-> d,
         summary |-> [kind |-> "summary",
                      totalApiCalls |-> totalCalls,
                      uniqueCustomers |-> Cardinality({c \in CallerIds : d.customers[c].exists}),
                      successRate |-> IF totalCalls > 0
                                      THEN (20000 * successfulCalls + totalCalls)
                                             \div (2 * totalCalls)
                                      ELSE 0,
                      totalRevenue |-> d.revenue,
                      eventCounts |-> d.eventCounts,
                      recentCalls |-> Reverse(SliceLast(d.apiCalls, RecentCalls))]]

\* GET /api/analytics: res.json(analytics.getAnalyticsSummary())
GetAnalytics ==
    /\ ~tracker.loading
    /\ tracker.ops < MaxOps
    /\ LET r == getAnalyticsSummary(data)
       IN  /\ data' = r.data
           /\ tracker' = [tracker EXCEPT !.ops = @ + 1, !.threw = FALSE,
                                         !.reply = r.summary]
    /\ UNCHANGED <<gatewayVars, cronVars, file, history>>

\* GET /api/analytics/funnel: res.json(analytics.getConversionFunnel())
GetFunnel ==
    /\ ~tracker.loading
    /\ tracker.ops < MaxOps
    /\ tracker' = [tracker EXCEPT !.ops = @ + 1, !.threw = FALSE,
                                  !.reply = [kind |-> "funnel",
                                             funnel |-> getConversionFunnel(data)]]
    /\ UNCHANGED <<gatewayVars, cronVars, data, file, history>>

InitTracker == Init /\ variant = "analytics"

NextTracker ==
    \/ \E customerId \in CallerIds, status \in {"success", "error"} :
          TrackApiCall(customerId, status)
    \/ \E e \in EventCalls : TrackEvent(e)
    \/ Tick

NextRestart ==
    \/ NextTracker
    \/ Restart
    \/ LoadData

SpecTracker == InitTracker /\ [][NextTracker]_vars

SpecRestart == InitTracker /\ [][NextRestart]_vars

(***************************************************************************)
(* AnalyticsTracker with its file operations in flight: saveData takes     *)
(* JSON.stringify(this.data) when it is called and the write lands later;  *)
(* loadData's readFile reads the file at some moment and its continuation  *)
(* runs later.  Handlers run in between.  Writes of the same file started  *)
(* before an earlier one has finished land in either order.                *)
(***************************************************************************)
\* saveData up to its await: the text is serialised, fs.writeFile is in flight
startSave(t, d) == [t EXCEPT !.writes = Append(@, saveData(d)), !.saved = d]

\* the calls the gateway makes of trackApiCall and trackEvent
GatewayCalls == {[customerId |-> "c1", status |-> st] : st \in {"success", "error"}}

GatewayEvents ==
    {[name |-> n, revenue |-> 0, customerId |-> "c1"] :
        n \in {"tryon_initiated", "photo_uploaded"}}

\* analytics.trackApiCall(call) up to its await of saveData
CallTrackApiCall(call) ==
    /\ tracker.ops < MaxOps
    /\ LET r == recordCall(data, call.customerId, call.status, tracker.today)
       IN  /\ data' = r.data
           /\ tracker' = [(IF r.threw THEN tracker ELSE startSave(tracker, r.data))
                             EXCEPT !.ops = @ + 1, !.threw = r.threw]
    /\ UNCHANGED <<gatewayVars, cronVars, file, history>>

\* analytics.trackEvent(eventName, data) up to its await of saveData
CallTrackEvent(e) ==
    /\ tracker.ops < MaxOps
    /\ data' = recordEvent(data, e.name, e.revenue, e.customerId, tracker.today)
    /\ tracker' = [startSave(tracker, data') EXCEPT !.ops = @ + 1, !.threw = FALSE]
    /\ history' = Append(history, e.name)
    /\ UNCHANGED <<gatewayVars, cronVars, file>>

\* analytics.reset() up to its await of saveData
CallReset ==
    /\ tracker.ops < MaxOps
    /\ data' = FreshData
    /\ tracker' = [startSave(tracker, FreshData) EXCEPT !.ops = @ + 1, !.threw = FALSE]
    /\ UNCHANGED <<gatewayVars, cronVars, file, history>>

\* one of the fs.writeFile calls in flight lands
WriteFileDone(i) ==
    /\ i \in 1..Len(tracker.writes)
    /\ file' = tracker.writes[i]
    /\ tracker' = [tracker EXCEPT !.writes = SubSeq(@, 1, i - 1) \o SubSeq(@, i + 1, Len(@))]
    /\ UNCHANGED <<gatewayVars, cronVars, data, history>>

\* the process starts again after it ended with no write in flight: the
\* constructor sets this.data and calls loadData, which awaits readFile
Construct ==
    /\ ~tracker.loading
    /\ tracker.writes = <<>>
    /\ tracker.ops < MaxOps
    /\ data' = FreshData
    /\ tracker' = [tracker EXCEPT !.loading = TRUE, !.read = NotRead, !.ops = @ + 1,
                                  !.threw = FALSE]
    /\ UNCHANGED <<gatewayVars, cronVars, file, history>>

\* fs.readFile reads the file
ReadFileDone ==
    /\ tracker.loading
    /\ tracker.read = NotRead
    /\ tracker' = [tracker EXCEPT !.read = [kind |-> "read", file |-> file]]
    /\ UNCHANGED <<gatewayVars, cronVars, data, file, history>>

\* loadData after its await: this.data = JSON.parse(fileData), or the catch
\* block's saveData when there was no file or new Set threw
LoadDataDone ==
    /\ tracker.loading
    /\ tracker.read # NotRead
    /\ IF ~tracker.read.file.exists
       THEN /\ UNCHANGED data
            /\ tracker' = [startSave(tracker, data) EXCEPT !.loading = FALSE]
       ELSE LET r == loadData(tracker.read.file.content)
            IN  /\ data' = r.data
                /\ tracker' = [(IF r.threw THEN startSave(tracker, r.data) ELSE tracker)
                                  EXCEPT !.loading = FALSE]
    /\ UNCHANGED <<gatewayVars, cronVars, file, history>>

NextAsync ==
    \/ \E call \in GatewayCalls : CallTrackApiCall(call)
    \/ \E e \in GatewayEvents : CallTrackEvent(e)
    \/ CallReset
    \/ \E i \in 1..MaxOps : WriteFileDone(i)
    \/ Construct
    \/ ReadFileDone
    \/ LoadDataDone

SpecAsync == InitTracker /\ [][NextAsync]_vars

\* the tracker with its two queries
NextQueries ==
    \/ NextTracker
    \/ GetAnalytics
    \/ GetFunnel

SpecQueries == InitTracker /\ [][NextQueries]_vars

Customers == {k \in KeyValues : directory[k] # NoCustomer}

SubmitEndpoints == {"tryon", "generate"}

\* C1: under any interleaving of one customer's submit calls, the customer's
\* usage never exceeds planLimit + N, N the largest number of its calls in
\* flight at once; indeed it stays within planLimit as long as no call was in
\* flight, and within planLimit + N - 1 afterwards.
C1_UsageWithinLimitPlusInflight ==
    \A k \in Customers :
        /\ directory[k].used <= directory[k].limit + maxInflight[k]
        /\ directory[k].used <= Max(directory[k].limit,
                                   directory[k].limit + maxInflight[k] - 1)

\* two calls of one customer were in flight together and took its usage
\* above the plan limit
C1_Witness ==
    \E k \in Customers :
        /\ maxInflight[k] >= 2
        /\ directory[k].used > directory[k].limit

\* request r arrives in this step
Arrives(r) == req[r].pc = "new" /\ req'[r].pc # "new"

\* the key the gateway verifies for a request: the header, or the demo key
\* where the route injects it
EffectiveKey(rq) ==
    IF variant = "analytics" /\ rq.endpoint \in {"generate", "status"}
       /\ rq.header = Absent
    THEN DemoKey ELSE rq.header

\* the prefix format the running gateway requires of a key
WellFormed(key) ==
    IF variant = "analytics" THEN StartsWith(key, <<"vmize", "pk">>)
    ELSE \/ StartsWith(key, <<"vmize", "pk", "live">>)
         \/ StartsWith(key, <<"vmize", "pk", "test">>)

\* the key is well formed, matches a customer, and the customer's
\* subscription is active (demo customers carry no subscription status)
Authorized(key) ==
    /\ key \in Customers
    /\ WellFormed(key)
    /\ variant # "analytics" => directory[key].status = "active"

\* the submit call of request r learns in this step that the provider
\* answered 2xx
SubmitSucceeds(r) ==
    /\ req[r].endpoint \in SubmitEndpoints
    /\ req[r].pc \in {"upstream", "fetch"}
    /\ req'[r].outcome = "ok"

C3_RemainingFlooredAtZero ==
    \A r \in Slots :
        (req[r].pc = "done" /\ req[r].hasRemaining) =>
            /\ req[r].remaining >= 0
            /\ req[r].remaining =
                 Max(0, directory[req[r].key].limit - directory[req[r].key].used)

\* C4: a customer's current-month usage equals the number of its submit
\* calls that succeeded since usage was last reset.
C4_UsageCountsSuccessesExactlyOnce ==
    \A k \in Customers : directory[k].used = successes[k]

\* C5: when the provider call of an admitted submit request times out or
\* fails at the network level, the step that learns of the failure and every
\* later step of the request leave every usage counter as it was, the request
\* consumes no unit, and the caller is answered 500.
C5_UpstreamFailureLeavesUsage ==
    [][\A r \in Slots :
        /\ ( /\ req[r].endpoint \in SubmitEndpoints
             /\ req[r].pc \in {"upstream", "fetch"}
             /\ req'[r].outcome = "unavailable" )
           => /\ directory' = directory
              /\ req'[r].units = 0
              /\ req'[r].pc \in {"errEvent", "done"}
        /\ ( /\ req[r].endpoint \in SubmitEndpoints
             /\ req[r].outcome = "unavailable"
             /\ req[r].pc \in {"errEvent", "errRespond"}
             /\ req'[r] # req[r] )
           => directory' = directory
        /\ ( /\ req'[r].endpoint \in SubmitEndpoints
             /\ req'[r].outcome = "unavailable"
             /\ req'[r].pc = "done" )
           => req'[r].status = 500
    ]_vars

\* a submit call has been answered 500 after the provider was unreachable,
\* while another call of the same customer succeeded and was counted
C5_Witness ==
    \E r \in Slots :
        /\ req[r].pc = "done"
        /\ req[r].endpoint \in SubmitEndpoints
        /\ req[r].outcome = "unavailable"
        /\ req[r].status = 500
        /\ req[r].units = 0
        /\ Used(directory, req[r].key) = 1
        /\ successes[req[r].key] = 1

\* C6: a submit request that passed authentication and the subscription gate
\* is answered 429 exactly when currentMonthUsage + 1 > planLimit at
\* admission; a request answered 429 changes no usage counter and no
\* analytics record and makes no provider call.
C6_QuotaExceededExactly ==
    [][\A r \in Slots :
        (Arrives(r) /\ req'[r].endpoint \in SubmitEndpoints) =>
            /\ req'[r].status = 429
                 <=> /\ Authorized(EffectiveKey(req'[r]))
                     /\ directory[EffectiveKey(req'[r])].used + 1
                          > directory[EffectiveKey(req'[r])].limit
            /\ req'[r].status = 429
                 => /\ req'[r].pc = "done"
                    /\ ~req'[r].upstream
                    /\ directory' = directory
                    /\ analytics' = analytics
                    /\ successes' = successes
    ]_vars

\* a submit request has been answered 429 for a customer at its limit
C6_Witness ==
    \E r \in Slots :
        /\ req[r].pc = "done"
        /\ req[r].endpoint \in SubmitEndpoints
        /\ req[r].status = 429
        /\ ~req[r].upstream
        /\ Authorized(EffectiveKey(req[r]))
        /\ directory[EffectiveKey(req[r])].used
             = directory[EffectiveKey(req[r])].limit

\* C7: on every key-gated endpoint a request whose key header is absent or
\* not of the required prefix format is answered 401 at once: no provider
\* call, no change of any customer's usage nor of the analytics state.
C7_MalformedKeyNeverAdmitted ==
    [][\A r \in Slots :
        (Arrives(r) /\ ~WellFormed(req'[r].header)) =>
            /\ req'[r].pc = "done"
            /\ req'[r].status = 401
            /\ ~req'[r].upstream
            /\ directory' = directory
            /\ analytics' = analytics
    ]_vars

\* C8: a request whose key is well formed but matches no customer record is
\* answered 401 "Invalid API key" at once: no provider call and no change of
\* the directory, the analytics state or the success counts, whatever the
\* directory holds (before a key is issued, after it is revoked).
C8_UnknownKeyNeverAdmitted ==
    [][\A r \in Slots :
        ( /\ Arrives(r)
          /\ WellFormed(EffectiveKey(req'[r]))
          /\ directory[EffectiveKey(req'[r])] = NoCustomer ) =>
            /\ req'[r].pc = "done"
            /\ req'[r].status = 401
            /\ req'[r].reason = "Invalid API key"
            /\ ~req'[r].upstream
            /\ directory' = directory
            /\ analytics' = analytics
            /\ successes' = successes
    ]_vars

\* a well-formed key has been answered 401 "Invalid API key" after a
\* submit call of that very key had succeeded: the key was revoked since
C8_Witness ==
    \E r \in Slots :
        /\ req[r].pc = "done"
        /\ WellFormed(req[r].header)
        /\ directory[req[r].header] = NoCustomer
        /\ req[r].status = 401
        /\ req[r].reason = "Invalid API key"
        /\ successes[req[r].header] > 0

\* C9: a request whose customer has subscription status inactive or
\* cancelled is answered 403 at once: no provider call, and no usage counter
\* changes.
C9_InactiveNeverAdmitted ==
    [][\A r \in Slots :
        ( /\ Arrives(r)
          /\ EffectiveKey(req'[r]) \in Customers
          /\ directory[EffectiveKey(req'[r])].status \in {"inactive", "cancelled"} ) =>
            /\ req'[r].pc = "done"
            /\ req'[r].status = 403
            /\ ~req'[r].upstream
            /\ directory' = directory
            /\ successes' = successes
    ]_vars

\* a customer who has consumed a unit and was then deactivated has been
\* answered 403
C9_Witness ==
    \E r \in Slots :
        /\ req[r].pc = "done"
        /\ req[r].status = 403
        /\ ~req[r].upstream
        /\ req[r].header \in Customers
        /\ directory[req[r].header].status = "inactive"
        /\ directory[req[r].header].used > 0

\* C10: a request of a trialing customer whose trial has not lapsed passes the
\* subscription gate (it is answered 429 exactly when over quota, and never
\* 403); a trialing customer whose trial has lapsed is answered 403.
C10_TrialingAdmittedWithinWindow ==
    [][\A r \in Slots :
        ( /\ Arrives(r)
          /\ EffectiveKey(req'[r]) \in Customers
          /\ directory[EffectiveKey(req'[r])].status = "trialing" ) =>
            IF directory[EffectiveKey(req'[r])].trialLapsed
            THEN req'[r].status = 403
            ELSE /\ req'[r].status # 403
                 /\ req'[r].status = 429
                      <=> directory[EffectiveKey(req'[r])].used + 1
                           > directory[EffectiveKey(req'[r])].limit
    ]_vars

\* a run of the billing job ends in this step
RunEnds == run.pc # "idle" /\ run'.pc = "idle"

\* the customers that were active when the run read the collection
ActiveAtStart(r) == {c \in CustomerIds : r.atStart[c].status = "active"}

\* the charge calls the run numbered n issued for customer c
ChargeCalls(ledger, n, c) ==
    {i \in 1..Len(ledger) : ledger[i].run = n /\ ledger[i].customer = c}

\* C11: when a billing run ends, every customer that was active at its start
\* has current-month usage 0 and the usage it had archived as the last entry
\* of its usage history, whether its charge succeeded, was skipped or failed.
C11_EveryActiveCustomerReset ==
    [][RunEnds =>
        \A c \in ActiveAtStart(run') :
            /\ customers'[c].used = 0
            /\ customers'[c].usageHistory
                 = Append(run'.atStart[c].usageHistory, run'.atStart[c].used)
    ]_vars

\* C12: when a billing run ends in which the charge of one customer failed,
\* every other customer that was active at its start has been processed:
\* charged if it had overage, and reset.
C12_FailureDoesNotAbortCycle ==
    [][RunEnds =>
        \A f \in run'.failed :
            \A c \in ActiveAtStart(run') \ {f} :
                /\ c \in run'.done
                /\ run'.atStart[c].used > run'.atStart[c].limit
                     => ChargeCalls(charges', run'.count, c) # {}
    ]_vars

\* C13: when a billing run ends, each customer active at its start with
\* overageUnits = max(0, usage - planLimit) > 0 has exactly one charge call
\* of overageUnits x rate, each active customer with overageUnits = 0 has
\* none, and a customer that was not active has no charge call and is as it
\* was.
C13_OneChargePerOverage ==
    [][RunEnds =>
        \A c \in CustomerIds :
            LET calls == ChargeCalls(charges', run'.count, c)
                overageUnits == Max(0, run'.atStart[c].used - run'.atStart[c].limit)
            IN  IF c \in ActiveAtStart(run')
                THEN /\ overageUnits > 0 =>
                          /\ Cardinality(calls) = 1
                          /\ \A i \in calls : charges'[i].amount = overageUnits * OverageRate
                     /\ overageUnits = 0 => calls = {}
                ELSE /\ calls = {}
                     /\ customers'[c] = run'.atStart[c]
    ]_vars

\* the Daily Aggregate of a date rebuilt by replaying the Call Record log:
\* call counts by outcome and the customer ids of the records; a Call Record
\* carries no revenue
Rebuild(calls, dt) ==
    LET onDate == {i \in 1..Len(calls) : calls[i].date = dt}
    IN  [exists |-> onDate # {},
         totalCalls |-> Cardinality(onDate),
         successfulCalls |-> Cardinality({i \in onDate : calls[i].status = "success"}),
         failedCalls |-> Cardinality({i \in onDate : calls[i].status # "success"}),
         uniqueCustomers |-> SetOf({calls[i].customerId : i \in onDate}),
         revenue |-> 0]

\* C14: after any sequence of recordCall and recordEvent operations, the
\* incrementally maintained Daily Aggregate of every date (total, successful
\* and failed calls, distinct customer ids, revenue) equals the aggregate
\* rebuilt from the Call Record log of that date.
C14_DailyAggregateEqualsRebuild ==
    \A dt \in Dates : data.dailyStats[dt] = Rebuild(data.apiCalls, dt)

\* a restarted tracker finishes loading in this step
Restored == tracker.loading /\ ~tracker'.loading

\* C15: loading the saved state in a fresh tracker restores the data that was
\* saved (the call log, every counter, every day's set of distinct customers
\* with the same members, as a set); no later call throws, and every
\* recordCall leaves the day's distinct customers a set holding the caller.
C15_SaveLoadRoundTrip ==
    [][/\ Restored => data' = tracker.saved
       /\ ~tracker'.threw
       /\ Len(data'.apiCalls) = Len(data.apiCalls) + 1
            => LET day == data'.dailyStats[tracker.today]
               IN  /\ day.uniqueCustomers.kind = "Set"
                   /\ Cardinality(day.uniqueCustomers.members)
                        = Cardinality(Rebuild(data'.apiCalls, tracker.today)
                                        .uniqueCustomers.members)
    ]_vars

\* C16: the reset is atomic for every caller: a response sent while the reset
\* is under way never reports a quota other than the full one, and when the
\* reset returns the analytics state is the cleared one and every customer's
\* current usage is 0.
C16_ResetIsAtomic ==
    [][/\ \A r \in Slots :
            ( /\ reset = "saving"
              /\ req[r].pc # "done" /\ req'[r].pc = "done"
              /\ req'[r].hasRemaining )
            => req'[r].remaining = PlanLimit
       /\ (reset = "saving" /\ reset' = "idle")
            => /\ analytics' = FreshAnalytics
               /\ \A k \in Customers : directory'[k].used = 0
    ]_vars

\* the four stage-to-stage ratios of a funnel report, each with the count of
\* its denominator stage
FunnelRatios(f) ==
    {<<f.uploadRate, f.tryonClick>>, <<f.viewRate, f.photoUpload>>,
     <<f.cartRate, f.resultViewed>>, <<f.purchaseRate, f.addToCart>>}

\* C17: after any sequence of recordEvent calls every ratio of funnel() is a
\* number between 0% and 100%, and is 0 when its denominator stage count is 0.
C17_FunnelRatiosWithinUnit ==
    \A p \in FunnelRatios(getConversionFunnel(data)) :
        /\ p[1].kind = "number"
        /\ p[1].n >= 0
        /\ p[1].n <= 1000
        /\ p[2] = 0 => p[1].n = 0

\* how many times a name was recorded, whatever the order
Tally(name) == Cardinality({i \in 1..Len(history) : history[i] = name})

\* n / d in tenths of a percent, 0 when d = 0
Ratio(n, d) == IF d = 0 THEN 0 ELSE (2000 * n + d) \div (2 * d)

\* C18: funnel() is a function of how many times each event was recorded and
\* not of the order of the calls: its stage counts are the tallies of the
\* events and uploadRate is photo_uploaded / tryon_initiated of the tallies.
C18_FunnelDependsOnCountsOnly ==
    LET f == getConversionFunnel(data)
    IN  /\ f.productView = Tally("tryon_initiated")
        /\ f.tryonClick = Tally("tryon_initiated")
        /\ f.photoUpload = Tally("photo_uploaded")
        /\ f.resultViewed = Tally("result_viewed")
        /\ f.addToCart = Tally("add_to_cart")
        /\ f.purchase = Tally("purchase")
        /\ f.uploadRate = Num(Ratio(Tally("photo_uploaded"), Tally("tryon_initiated")))
        /\ f.viewRate = Num(Ratio(Tally("result_viewed"), Tally("photo_uploaded")))
        /\ f.cartRate = Num(Ratio(Tally("add_to_cart"), Tally("result_viewed")))
        /\ f.purchaseRate = Num(Ratio(Tally("purchase"), Tally("add_to_cart")))

\* Scenario E with the upload recorded before the initiation: uploadRate is
\* 100%
C18_Witness ==
    /\ \E i, j \in 1..Len(history) :
          i < j /\ history[i] = "photo_uploaded" /\ history[j] = "tryon_initiated"
    /\ Tally("photo_uploaded") = 1
    /\ Tally("tryon_initiated") = 1
    /\ getConversionFunnel(data).uploadRate = Num(1000)

\* C19: recordEvent(name), for any name, raises the counter of that name by
\* exactly 1 (to 1 if there was none) and leaves every other event counter,
\* the call log, the call counts of every customer rollup and of every day,
\* and every customer's usage as they were.
C19_RecordEventFrame ==
    [][Len(history') = Len(history) + 1 =>
        LET name == history'[Len(history')]
        IN  /\ data'.eventCounts[name] =
                 IF data.eventCounts[name] = Undefined THEN Num(1)
                 ELSE Num(data.eventCounts[name].n + 1)
            /\ \A e \in AllNames \ {name} : data'.eventCounts[e] = data.eventCounts[e]
            /\ data'.apiCalls = data.apiCalls
            /\ \A c \in CallerIds :
                  /\ data'.customers[c].totalCalls = data.customers[c].totalCalls
                  /\ data'.customers[c].successfulCalls = data.customers[c].successfulCalls
                  /\ data'.customers[c].failedCalls = data.customers[c].failedCalls
            /\ \A dt \in Dates :
                  /\ data'.dailyStats[dt].totalCalls = data.dailyStats[dt].totalCalls
                  /\ data'.dailyStats[dt].successfulCalls = data.dailyStats[dt].successfulCalls
                  /\ data'.dailyStats[dt].failedCalls = data.dailyStats[dt].failedCalls
            /\ directory' = directory
            /\ customers' = customers
    ]_vars

\* C20: in every submit path an admitted request that lacks an image is
\* answered 400, without a provider call and without a usage increment.
C20_MissingImageIsBadRequest ==
    \A r \in Slots :
        ( /\ req[r].pc = "done"
          /\ req[r].endpoint \in SubmitEndpoints
          /\ req[r].key # Absent
          /\ ~req[r].body )
        => /\ req[r].status = 400
           /\ ~req[r].upstream
           /\ req[r].units = 0

\* C21: in every submit and status-poll path a non-2xx answer of the provider
\* reaches the caller as a 500-class failure, never as a success, and
\* increments no usage.
C21_UpstreamRejectionIsFailure ==
    \A r \in Slots :
        ( /\ req[r].pc = "done"
          /\ req[r].endpoint \in SubmitEndpoints \cup {"status"}
          /\ req[r].outcome = "rejected" )
        => /\ req[r].status >= 500
           /\ req[r].units = 0

C25_NoRecordRemoved ==
    [][\A k \in KeyValues : directory[k] # NoCustomer => directory'[k] # NoCustomer]_vars

\* C26: no failure met while one request is handled ends the serving process:
\* the process never dies, and a request whose customer lookup failed is
\* answered with an error response.
C26_RequestFailureNeverEndsProcess ==
    \A r \in Slots : req[r].pc # "dead"

\* C27: usage increments of one customer are never lost: once submit calls of
\* a customer have overlapped and none is in flight any more, the usage
\* counter equals the number of its submit calls that completed successfully.
C27_NoLostUpdate ==
    \A k \in Customers :
        (maxInflight[k] >= 2 /\ Inflight(req, k) = 0)
        => directory[k].used = successes[k]

\* C28: a customer's current-month usage only grows, except in a reset step,
\* which sets it to 0 and archives exactly the value it had; and a billing run
\* resets every customer that was active at its start exactly once.
C28_MonotoneAndResetOncePerPeriod ==
    [][/\ \A c \in CustomerIds :
            \/ /\ customers'[c].used >= customers[c].used
               /\ customers'[c].usageHistory = customers[c].usageHistory
            \/ /\ customers'[c].used = 0
               /\ customers'[c].usageHistory
                    = Append(customers[c].usageHistory, customers[c].used)
       /\ RunEnds =>
            \A c \in ActiveAtStart(run') :
                Len(customers'[c].usageHistory)
                  = Len(run'.atStart[c].usageHistory) + 1
    ]_vars

\* C29: a submit call that the provider accepted is answered with a 500-class
\* error for a failed usage write only after the write was tried at least
\* twice.
C29_FailedIncrementRetried ==
    \A r \in Slots :
        ( /\ req[r].pc = "done"
          /\ req[r].endpoint \in SubmitEndpoints
          /\ req[r].outcome = "ok"
          /\ req[r].status >= 500 )
        => req[r].tries >= 2

\* what the run numbered n charged customer c, in cents
Charged(ledger, n, c) ==
    IF ChargeCalls(ledger, n, c) = {} THEN 0
    ELSE ledger[CHOOSE i \in ChargeCalls(ledger, n, c) : TRUE].amount

\* C30: when the billing job resets a customer, every unit counted so far is
\* either in the archived value or in the new counter, and what the run
\* charged the customer is max(0, archived usage - planLimit) x rate.
C30_EveryUnitAccountedOnce ==
    [][(run.pc = "resetting" /\ run'.pc = "next") =>
        LET c == Head(run.queue)
            archived == customers'[c].usageHistory[Len(customers'[c].usageHistory)]
        IN  /\ archived + customers'[c].used = customers[c].used
            /\ Charged(charges', run.count, c)
                 = Max(0, archived - customers[c].limit) * OverageRate
    ]_vars

\* C31: a customer's usage counter changes only by the increment of a submit
\* call of that customer answered with success, or by a reset that sets it to
\* 0; and no reset asked for by a caller that presented no credential at all
\* changes a usage counter.
C31_UsageChangedOnlyByMutatorPath ==
    [][\A k \in KeyValues :
         ( /\ directory[k] # NoCustomer
           /\ directory'[k] # NoCustomer
           /\ directory'[k].used # directory[k].used )
         => \/ /\ directory'[k].used = directory[k].used + 1
               /\ successes'[k] = successes[k] + 1
            \/ /\ reset = "saving" /\ reset' = "idle"
               /\ directory'[k].used = 0
               /\ admin.caller # Absent
    ]_vars

\* the records of the call log that carry a given customer id
RecordsOf(calls, k) == {i \in 1..Len(calls) : calls[i].customerId = k}

RECURSIVE SumTotalCalls(_, _)
\* totalCalls summed over the rollups of a set of keys
SumTotalCalls(rollups, keys) ==
    IF keys = {} THEN 0
    ELSE LET k == CHOOSE x \in keys : TRUE
         IN  rollups[k].totalCalls + SumTotalCalls(rollups, keys \ {k})

\* C32: for every key of the rollup table, the rollup's totalCalls is the
\* number of call records carrying that key as customerId and is the sum of
\* its successful and failed calls; and the totalCalls of all rollups add up
\* to the length of the call log.
C32_RollupMatchesLog ==
    /\ \A k \in CallerIds :
          data.customers[k].exists =>
             /\ data.customers[k].totalCalls = Cardinality(RecordsOf(data.apiCalls, k))
             /\ data.customers[k].totalCalls
                  = data.customers[k].successfulCalls + data.customers[k].failedCalls
    /\ SumTotalCalls(data.customers, CallerIds) = Len(data.apiCalls)

\* seq1 is the beginning of seq2, record for record
IsPrefix(seq1, seq2) ==
    /\ Len(seq1) <= Len(seq2)
    /\ SubSeq(seq2, 1, Len(seq1)) = seq1

\* C33: the call log is append-only: in every step of recordCall, recordEvent,
\* summary or funnel the log before the step is a prefix of the log after it,
\* so no existing record is changed, moved or removed.
C33_CallLogAppendOnly ==
    [][IsPrefix(data.apiCalls, data'.apiCalls)]_vars

\* a summary was answered from a log of two different records: it lists them
\* latest first, and the log still has them in the order they were recorded
C33_Witness ==
    /\ tracker.reply.kind = "summary"
    /\ Len(data.apiCalls) = 2
    /\ data.apiCalls[1] # data.apiCalls[2]
    /\ tracker.reply.recentCalls = <<data.apiCalls[2], data.apiCalls[1]>>

\* the moves of a cycle run: Idle -> Scanning -> Charging or Skipping ->
\* Resetting -> Idle, the loop passing through its head between two customers
CycleMoves ==
    {<<"idle", "find">>, <<"find", "next">>, <<"next", "charging">>,
     <<"next", "resetting">>, <<"charging", "resetting">>, <<"resetting", "next">>,
     <<"next", "idle">>}

\* C34: every billing run that starts returns to idle whatever the charge
\* outcomes; it moves only along Idle -> Scanning -> Charging or Skipping ->
\* Resetting -> Idle, so that a customer's charge-or-skip step comes before its
\* reset; no customer is reset twice in a run; and when the run ends it has
\* visited every customer that was active at its start.
C34_CycleRunCompletes ==
    /\ (run.pc # "idle") ~> (run.pc = "idle")
    /\ [][/\ run'.pc # run.pc => <<run.pc, run'.pc>> \in CycleMoves
          /\ (run.pc = "resetting" /\ run'.pc = "next") => Head(run.queue) \notin run.done
          /\ RunEnds => run'.done = ActiveAtStart(run')
       ]_vars

\* C35: in the gateway with analytics, a submit call that was admitted has
\* appended exactly one call record when its response is sent, with status
\* success exactly when the response is a 200; and a call answered at
\* admission (a rejection included) is recorded in the analytics in the step
\* that answers it.
C35_EveryCallRecorded ==
    [][variant = "analytics" =>
        \A r \in Slots :
            /\ ( /\ req[r].pc # "done" /\ req'[r].pc = "done"
                 /\ req'[r].endpoint \in SubmitEndpoints
                 /\ req'[r].key # Absent )
               => /\ Len(req'[r].records) = 1
                  /\ req'[r].records[1] = "success" <=> req'[r].status = 200
            /\ (req[r].pc = "new" /\ req'[r].pc = "done") => analytics' # analytics
    ]_vars

\* C36: when the load of a restarted tracker completes, the calls and events
\* recorded since the constructor ran are in the state: the call log is the
\* log that was read followed by the calls recorded meanwhile, and every
\* event counter is the one that was read plus the events recorded meanwhile.
C36_NothingLostToInitialLoad ==
    [][(Restored /\ tracker.read # NotRead /\ tracker.read.file.exists) =>
        LET loaded == tracker.read.file.content
        IN  /\ data'.apiCalls = loaded.apiCalls \o data.apiCalls
            /\ \A e \in FunnelEvents :
                  OrZero(data'.eventCounts[e])
                    = OrZero(loaded.eventCounts[e]) + OrZero(data.eventCounts[e])
    ]_vars

\* C37: whenever no load and no write is in flight, the file holds the
\* serialisation of the tracker's data as it is now.
C37_FileEqualsStateWhenQuiet ==
    (tracker.writes = <<>> /\ ~tracker.loading) => file = saveData(data)

\* C38: however often the status of a job is polled, the job adds at most one
\* result_generated and at most one result_viewed event to the counters: with
\* every poll naming the same job, neither counter exceeds the number of jobs.
C38_OneResultEventPerJob ==
    variant = "analytics" =>
        /\ analytics.events["result_generated"] <= Cardinality(JobIds)
        /\ analytics.events["result_viewed"] <= Cardinality(JobIds)

====
